---- MODULE Spec2Model ----
(***************************************************************************)
(* Rigid-pavement design (AASHTO '93) for substation access roads:         *)
(* pavimento_rigido.py.                                                    *)
(*                                                                         *)
(* Numbers.  The program computes in IEEE doubles; the model computes in   *)
(* integers with fixed scales:                                             *)
(*   k (pci)            hundredths of a pci        7800   = 78.00 pci      *)
(*   base thickness     hundredths of a cm         1500   = 15.00 cm       *)
(*   CBR, growth rate   tenths of a percent        30     = 3.0 %          *)
(*   axle load          tenths of a ton            110    = 11.0 Ton       *)
(*   slab thickness     thousandths of an inch     8780   = 8.780 in       *)
(*   slab thickness cm  1e-5 cm (inch/1000 * 254)  2230120 = 22.3012 cm    *)
(*   log2               1/4096 (LF)                                        *)
(* log, log10 and ** are computed by a binary fixed-point algorithm        *)
(* (Log2Fix, Exp2Fix), accurate to about 3e-4.                             *)
(***************************************************************************)
EXTENDS Integers, Sequences, FiniteSets, TLC

\* ------------------------------------------------------------------------
\* Fixed-point kernel: np.log, np.log10 and ** of the source.
\* ------------------------------------------------------------------------

\* scale of a mantissa in [1, 2)
F == 2^14

\* scale of a base-2 logarithm
LF == 2^12

\* largest finite double is just below 2^1024: a result at or beyond it overflows
DblMaxExp == 1024 * LF

RECURSIVE Normalise(_, _, _)
\* <<n', d', e>> with n/d = (n'/d') * 2^e and d' <= n' < 2 d'
Normalise(n, d, e) ==
    IF n >= 2 * d THEN Normalise(n, 2 * d, e + 1)
    ELSE IF n < d THEN Normalise(2 * n, d, e - 1)
    ELSE <<n, d, e>>

RECURSIVE Shrink(_, _)
\* the same ratio with a numerator below 2^17, so that n * F fits 32 bits
Shrink(n, d) == IF n >= 2^17 THEN Shrink(n \div 2, d \div 2) ELSE <<n, d>>

RECURSIVE LogBits(_, _, _)
\* the i next bits of log2(m / F), m / F in [1, 2): square, and shift when >= 2
LogBits(m, i, acc) ==
    IF i = 0 THEN acc
    ELSE LET s == (m * m) \div F
         IN  IF s >= 2 * F
             THEN LogBits(s \div 2, i - 1, 2 * acc + 1)
             ELSE LogBits(s, i - 1, 2 * acc)

\* log2(n / d) in units of 1/LF, for n, d > 0
Log2Fix(n, d) ==
    LET t == Normalise(n, d, 0)
        s == Shrink(t[1], t[2])
        m == (s[1] * F) \div s[2]
    IN  t[3] * LF + LogBits(m, 12, 0)

RECURSIVE SqrtIter(_, _)
\* Newton's iteration for the integer square root of x, from r >= sqrt(x)
SqrtIter(x, r) ==
    LET r2 == (r + x \div r) \div 2
    IN  IF r2 >= r THEN r ELSE SqrtIter(x, r2)

\* floor(sqrt(x)) for x >= 1
ISqrt(x) == SqrtIter(x, x)

RECURSIVE Root2(_)
\* 2^(2^-i) in units of 1/F
Root2(i) == IF i = 0 THEN 2 * F ELSE ISqrt(Root2(i - 1) * F)

\* Root2 as a table
Pow2Tab == [i \in 1..12 |-> Root2(i)]

RECURSIVE ExpBits(_, _, _)
\* 2^(f / LF) in units of 1/F for 0 <= f < LF: one factor per set bit of f
ExpBits(f, i, m) ==
    IF i > 12 THEN m
    ELSE IF (f \div 2^(12 - i)) % 2 = 1
         THEN ExpBits(f, i + 1, (m * Pow2Tab[i]) \div F)
         ELSE ExpBits(f, i + 1, m)

\* 2^(y / LF) in units of 1/scale, for y of either sign and scale <= 2^16
Exp2Fix(y, scale) ==
    LET n == y \div LF
        m == ExpBits(y - n * LF, 1, F)
        v == (m * scale) \div F
    IN  IF n >= 0 THEN v * 2^n ELSE v \div 2^(0 - n)

\* np.log(n / d) in thousandths
LnMilli(n, d) == (Log2Fix(n, d) * 6931) \div (LF * 10)

\* np.log10(n / d) in units of 1e-4
Log10Fix(n, d) == (Log2Fix(n, d) * 30103) \div (LF * 10)

\* ------------------------------------------------------------------------
\* 1. Technical functions
\* ------------------------------------------------------------------------

\* the outcome of a call that raised
Raised == [error |-> TRUE, zero |-> FALSE, l |-> 0]

\* a double > 0 held as its base-2 logarithm (units of 1/LF)
Pos(l) == [error |-> FALSE, zero |-> FALSE, l |-> l]

\* the double 0.0
Zero == [error |-> FALSE, zero |-> TRUE, l |-> 0]

\* x ** n for a Python float x = num/den > 0 and n >= 1: OverflowError when the
\* result is beyond the largest double
FloatPow(num, den, n) ==
    LET l == n * Log2Fix(num, den)
    IN  IF l >= DblMaxExp THEN Raised ELSE Pos(l)

\* p - 1 for a double p = 2^(l/LF) >= 1
MinusOne(l) ==
    IF l >= 16 * LF THEN Pos(l)
    ELSE LET v == Exp2Fix(l, F) - F
         IN  IF v <= 0 THEN Zero ELSE Pos(Log2Fix(v, F))

\* the product of doubles a * b (inf is not an error: no exception is raised)
FloatMul(a, b) ==
    IF a.error \/ b.error THEN Raised
    ELSE IF a.zero \/ b.zero THEN Zero
    ELSE Pos(a.l + b.l)

\* fe of calcular_w18: (peso_eje / p_patron) ** alfa
FactorEquivalencia(peso_eje) == FloatPow(peso_eje, 82, 4)

\* f_crec of calcular_w18
FactorCrecimiento(periodo, crecimiento) ==
    IF crecimiento = 0 THEN Pos(Log2Fix(periodo * 365, 1))
    ELSE LET p == FloatPow(1000 + crecimiento, 1000, periodo)
         IN  IF p.error THEN Raised
             ELSE FloatMul(MinusOne(p.l),
                           Pos(Log2Fix(365, 1) - Log2Fix(crecimiento, 1000)))

\* calcular_w18(tpd, periodo, crecimiento, peso_eje): [fe, w18], or error when
\* the call raises
calcular_w18(tpd, periodo, crecimiento, peso_eje) ==
    LET fe     == FactorEquivalencia(peso_eje)
        f_crec == FactorCrecimiento(periodo, crecimiento)
        w18    == FloatMul(FloatMul(Pos(Log2Fix(tpd, 1)), fe), f_crec)
    IN  [error |-> fe.error \/ f_crec.error, fe |-> fe, w18 |-> w18]

Granular == "Base Granular (Zahorra)"

Estabilizada == "Suelo Cemento / Estabilizada"

\* the factor of a base of h_pulg = esp / 254 inches, in thousandths
FactorBase(espesor_base_cm, coef) == 1000 + (coef * LnMilli(espesor_base_cm, 254)) \div 100

\* min(a, b)
Min(a, b) == IF a <= b THEN a ELSE b

\* max(a, b)
Max(a, b) == IF a >= b THEN a ELSE b

\* calcular_k_combinado(k_subrasante, espesor_base_cm, tipo_material)
calcular_k_combinado(k_subrasante, espesor_base_cm, tipo_material) ==
    IF espesor_base_cm * 100 < 3 * 254 * 100 THEN k_subrasante
    ELSE LET k_nuevo ==
                 IF tipo_material = Granular
                 THEN (k_subrasante * FactorBase(espesor_base_cm, 15)) \div 1000
                 ELSE IF tipo_material = Estabilizada
                 THEN (((k_subrasante * FactorBase(espesor_base_cm, 35)) \div 1000) * 125) \div 100
                 ELSE k_subrasante
         IN  Min(k_nuevo, 80000)

\* 25.5 + 52.5 * np.log10(cbr), cbr in tenths of a percent
RamaLog(cbr) == 2550 + (525 * Log10Fix(cbr, 10)) \div 1000

\* 46.0 + 9.08 * (np.log10(cbr)) ** 4.34
RamaPotencia(cbr) ==
    LET lg == Log10Fix(cbr, 10)
        p  == IF lg <= 0 THEN 0 ELSE Exp2Fix((434 * Log2Fix(lg, 10000)) \div 100, 1000)
    IN  4600 + (908 * p) \div 1000

\* the correlation with 10 % in the power branch: `if cbr < 10`
k_natural_cbr_menor(cbr) == IF cbr < 100 THEN RamaLog(cbr) ELSE RamaPotencia(cbr)

\* the CBR correlation of the subgrade modulus (k natural)
k_natural_cbr(cbr) == IF cbr <= 100 THEN RamaLog(cbr) ELSE RamaPotencia(cbr)

\* `return 1e10`: the residual of a D outside the domain of the equation
Centinela == [clase |-> "centinela", v |-> 0, div0 |-> FALSE]

\* D ** 0.75 in thousandths, for D > 0 in thousandths of an inch
D75(D) == Exp2Fix((3 * Log2Fix(D, 1000)) \div 4, 1000)

\* 18.42 / ((ec / k) ** 0.25) in thousandths, ec in psi and k in hundredths of a pci
Umbral(ec, k) == Exp2Fix(Log2Fix(1842, 100) - Log2Fix(ec * 100, k) \div 4, 1000)

\* term_serv in units of 1e-4, d_psi in tenths:
\* np.log10(max(d_psi, 0.01) / 3.0) / (1 + (1.624 * 10**7) / ((D + 1)**8.46))
TermServ(d_psi, D) ==
    LET lg == IF d_psi >= 1 THEN Log10Fix(d_psi, 30) ELSE Log10Fix(1, 300)
        e  == Log2Fix(16240000, 1) - (846 * Log2Fix(D + 1000, 1000)) \div 100
    IN  IF e >= 10 * LF
        THEN (lg * Exp2Fix(0 - e, 2^16)) \div 2^16
        ELSE (lg * 1000) \div (1000 + Exp2Fix(e, 1000))

\* np.log10(max(w18, 1)) in units of 1e-4, w18 a double held as its logarithm
Log10W18(w18) ==
    IF w18.zero \/ w18.l <= 0 THEN 0
    ELSE (w18.l \div LF) * 3010 + ((w18.l % LF) * 3010) \div LF

\* ecuacion(D) of calcular_espesor_aashto(w18, zr, s0, p0, pt, sc, cd, j, ec, k),
\* D an ndarray of fsolve: clase is what the call returns (centinela: 1e10;
\* finito: v, in units of 1e-4; inf, nan: a double that is not finite), div0
\* whether num / den was evaluated with den = 0 (numpy warns and gives inf or nan,
\* it does not raise).  num has the sign of x and den that of y.
ecuacion(a, D) ==
    IF D <= 0 THEN Centinela
    ELSE LET term_conf     == (a.zr * a.s0) \div 10
             term_esp      == (735 * Log10Fix(D + 1000, 1000)) \div 100 - 600
             term_serv     == TermServ(a.p0 - a.pt, D)
             factor_ajuste == 4220 - 32 * a.pt
             x             == D75(D) - 1132
             y             == D75(D) - Umbral(a.ec, a.k)
         IN  IF y = 0
             THEN IF x < 0 THEN [Centinela EXCEPT !.div0 = TRUE]
                  ELSE [ clase |-> IF x = 0 THEN "nan" ELSE "inf", v |-> 0,
                         div0 |-> TRUE ]
             ELSE IF x = 0 \/ ((x < 0) # (y < 0)) THEN Centinela
             ELSE LET lr == Log10Fix(a.sc * a.cd, 2156300 * a.j)
                              + Log10Fix(IF x < 0 THEN 0 - x ELSE x,
                                         IF y < 0 THEN 0 - y ELSE y)
                      term_mat == (factor_ajuste * lr) \div 1000
                  IN  [ clase |-> "finito",
                        v |-> (term_conf + term_esp + term_serv + term_mat)
                                - Log10W18(a.w18),
                        div0 |-> FALSE ]

\* calcular_espesor_aashto returns None
None == [none |-> TRUE, v |-> 0]

\* calcular_espesor_aashto returns sol[0] (thousandths of an inch)
Some(x) == [none |-> FALSE, v |-> x]

\* Python's truth value of a return value: `if esp_pulg:`
Truthy(r) == ~r.none /\ r.v # 0

\* the initial guesses of calcular_espesor_aashto, in inches
Guesses == <<6, 8, 10, 12, 14, 18>>

\* what scipy's fsolve may report for one start: ier (1: converged; 2..5: not)
\* and the final iterate sol[0] (thousandths of an inch)
Outcomes ==
    { [ier |-> 1, sol |-> 8780], [ier |-> 1, sol |-> -1000], [ier |-> 5, sol |-> 8780] }

\* the test without the sign of the root: `if ier == 1`
AcceptsSinSigno(out) == out.ier = 1

\* the test of the loop body: `if ier == 1 and sol[0] > 0`
Accepts(out) == out.ier = 1 /\ out.sol > 0

\* ------------------------------------------------------------------------
\* 2. User interface: the widgets and what the script derives from them
\* ------------------------------------------------------------------------

\* the widgets of tab1 and tab2 at their default values
UiDefault ==
    [ tpd |-> 5, periodo |-> 25, tasa |-> 0, peso_eje |-> 110,
      conf |-> 95, s0 |-> 35, p0 |-> 45, pt |-> 25,
      k_final |-> 80, fc_kg |-> 280, cbr |-> 30,
      usar_base |-> TRUE, tipo_base |-> Granular, esp_base |-> 1500,
      escenario |-> 1, cd_val |-> 100 ]

\* the other value each widget takes in the model
UiOther ==
    [ tpd |-> 50, periodo |-> 20, tasa |-> 50, peso_eje |-> 130,
      conf |-> 85, s0 |-> 39, p0 |-> 42, pt |-> 20,
      k_final |-> 101, fc_kg |-> 350, cbr |-> 80,
      usar_base |-> FALSE, tipo_base |-> Estabilizada, esp_base |-> 3000,
      escenario |-> 4, cd_val |-> 80 ]

\* the widgets the model lets the user change
UiFields ==
    { "tpd", "conf", "s0", "p0", "pt", "fc_kg", "cbr", "usar_base",
      "tipo_base", "esp_base", "escenario", "cd_val" }

\* the widgets of tab4 at their default values (tenths of a percent)
AbaDefault == [cbr_ini |-> 30, cbr_fin |-> 200, cbr_inc |-> 50]

\* the values the widgets of tab4 take in the model, within their min_value and
\* max_value
AbaValues ==
    [ cbr_ini |-> {30, 152}, cbr_fin |-> {200, 130}, cbr_inc |-> {50, 48} ]

\* norm.ppf(1 - conf / 100), in thousandths
ZrTab ==
    [ c \in {50, 55, 60, 65, 70, 75, 80, 85, 90, 95, 99} |->
        CASE c = 50 -> 0     [] c = 55 -> -126  [] c = 60 -> -253
          [] c = 65 -> -385  [] c = 70 -> -524  [] c = 75 -> -674
          [] c = 80 -> -842  [] c = 85 -> -1036 [] c = 90 -> -1282
          [] c = 95 -> -1645 [] c = 99 -> -2326 ]

\* np.sqrt(fc_psi), fc_psi = fc_kg * 14.2233, in hundredths
RaizFc(fc_kg) == ISqrt(fc_kg * 142233)

\* sc = k_final * np.sqrt(fc_psi), in thousandths of a psi
Sc(u) == u.k_final * RaizFc(u.fc_kg)

\* ec = 57000 * np.sqrt(fc_psi), in psi
Ec(u) == (57000 * RaizFc(u.fc_kg)) \div 100

\* the load-transfer scenarios: J (tenths), dowels, lateral support
Escenarios ==
    << [valor |-> 27, dovelas |-> "Si", soporte |-> "Si"],
       [valor |-> 32, dovelas |-> "Si", soporte |-> "No"],
       [valor |-> 38, dovelas |-> "No", soporte |-> "Si"],
       [valor |-> 42, dovelas |-> "No", soporte |-> "No"] >>

\* k_diseno of tab2
KDiseno(u) ==
    IF u.usar_base
    THEN calcular_k_combinado(k_natural_cbr(u.cbr), u.esp_base, u.tipo_base)
    ELSE k_natural_cbr(u.cbr)

\* w18_total of tab1
W18Total(u) == calcular_w18(u.tpd, u.periodo, u.tasa, u.peso_eje).w18

\* the arguments of the call of the design calculation
ArgsDiseno(u) ==
    [ w18 |-> W18Total(u), zr |-> ZrTab[u.conf], s0 |-> u.s0, p0 |-> u.p0,
      pt |-> u.pt, sc |-> Sc(u), cd |-> u.cd_val,
      j |-> Escenarios[u.escenario].valor, ec |-> Ec(u), k |-> KDiseno(u) ]

\* x / u rounded to the nearest whole number, halves to the even one: np.round
RoundHalfEven(x, u) ==
    LET q == x \div u
        r == x % u
    IN  IF 2 * r < u THEN q
        ELSE IF 2 * r > u THEN q + 1
        ELSE IF q % 2 = 0 THEN q ELSE q + 1

\* x / u rounded up to a whole number: np.ceil
Ceil(x, u) == (x + u - 1) \div u

\* esp_pulg * 2.54, in units of 1e-5 cm
EspCm(esp_pulg) == esp_pulg * 254

\* esp_final_cm of the design calculation, in cm
EspFinalCm(esp_pulg) == Max(Ceil(EspCm(esp_pulg), 10^5), 15)

\* the (start, stop, step) of the model, in tenths, whose quotient
\* (stop - start) / step is whole but comes out above it in doubles:
\* (20.0 + 4.8 - 15.2) / 4.8 = 2.0000000000000004. For every other triple of
\* AbaValues the ceiling of the double quotient is that of the exact one.
CocienteSobrepasa == { <<152, 248, 48>> }

\* the length np.arange gives its result: ceil((stop - start) / step), the
\* quotient computed in doubles
LargoArange(start, stop, step) ==
    IF stop > start
    THEN Ceil(stop - start, step)
           + (IF <<start, stop, step>> \in CocienteSobrepasa THEN 1 ELSE 0)
    ELSE 0

\* np.arange(start, stop, step): start + i * step for 0 <= i < the length
Arange(start, stop, step) ==
    [i \in 1..LargoArange(start, stop, step) |-> start + (i - 1) * step]

\* the row of the sweep for a solved thickness; "Excede (..)" and "> 25cm" are
\* held as excede = TRUE
FilaAbaco(c_val, ki_final, esp_pulg) ==
    LET esp_cm == EspCm(esp_pulg)
        base   == [ cbr |-> c_val, k |-> RoundHalfEven(ki_final, 10),
                    numerico |-> RoundHalfEven(esp_cm, 1000) ]
    IN  IF esp_cm <= 25 * 10^5
        THEN LET adoptado == Max(RoundHalfEven(esp_cm, 10^5), 15)
             IN  [ cbr |-> base.cbr, k |-> base.k, numerico |-> base.numerico,
                   excede |-> FALSE, adoptado |-> adoptado,
                   estado |-> IF 23 <= adoptado /\ adoptado <= 25
                              THEN "Revisar" ELSE "OK" ]
        ELSE [ cbr |-> base.cbr, k |-> base.k, numerico |-> base.numerico,
               excede |-> TRUE, adoptado |-> 0, estado |-> "Critico" ]

\* ------------------------------------------------------------------------
\* State
\* ------------------------------------------------------------------------

VARIABLES
    ui,               \* the widgets of tab1 and tab2
    aba,              \* the widgets of tab4
    session_state,    \* st.session_state: key -> value
    pc,               \* where the script run is: idle (no run), tab2, solve, tab3, tab4, loop, fin
    boton,            \* st.button("CALCULAR ESTRUCTURA") of this run
    sv,               \* the running call of calcular_espesor_aashto
    geom,             \* what tab3 computed in this run
    rango_cbr,        \* rango_cbr of tab4
    ci,               \* the index in rango_cbr of the for loop
    datos_abaco,      \* datos_abaco of tab4
    banderas,         \* fuera_de_rango and alerta_detectada of tab4
    llamadas,         \* history: the calls of calcular_espesor_aashto of this run
    caso_base,        \* history: the inputs of the last design calculation that stored
    edits,            \* the number of changes of the widgets of tab1 and tab2 so far
    fin,              \* pure-function checks: the inputs
    fout              \* pure-function checks: the outputs

vars == << ui, aba, session_state, pc, boton, sv, geom, rango_cbr, ci,
           datos_abaco, banderas, llamadas, caso_base, edits, fin, fout >>

appVars == << ui, aba, session_state, pc, boton, sv, geom, rango_cbr, ci,
              datos_abaco, banderas, llamadas, caso_base, edits >>

\* the number of changes of the widgets of tab1 and tab2 the model follows
MaxEdits == 1

\* no call of calcular_espesor_aashto is running
SvIdle == [ quien |-> "nadie", idx |-> 0, args |-> ArgsDiseno(UiDefault), c_val |-> 0,
            tried |-> << >>, last |-> [ier |-> 0, sol |-> 0],
            returned |-> FALSE, ret |-> None ]

\* tab3 showed only the notice
GeomNada == [hecho |-> FALSE, D |-> 0, dovelas |-> "No", leidos |-> {}]

\* no design calculation has stored yet
SinCaso == [hay |-> FALSE, args |-> ArgsDiseno(UiDefault), usar_base |-> FALSE,
            tipo_base |-> "", esp_base |-> 0, esp_pulg |-> 0]

\* fuera_de_rango and alerta_detectada as tab4 sets them before the loop
SinBanderas == [fuera_de_rango |-> FALSE, alerta_detectada |-> FALSE]

\* the locals of a script run before the run
LocalsInit ==
    /\ sv = SvIdle
    /\ geom = GeomNada
    /\ rango_cbr = << >>
    /\ ci = 0
    /\ datos_abaco = << >>
    /\ banderas = SinBanderas
    /\ llamadas = << >>

AppInit ==
    /\ ui = UiDefault
    /\ aba = AbaDefault
    /\ session_state = [key \in {} |-> 0]
    /\ pc = "idle"
    /\ boton = FALSE
    /\ LocalsInit
    /\ caso_base = SinCaso
    /\ edits = 0

\* a session with no pure-function check
NoFn == [f |-> "none"]

Init == AppInit /\ fin = NoFn /\ fout = NoFn

\* tab4 drawn without looking at what is stored
HayResultadoSiempre(ss) == TRUE

\* the test that opens tab4: `'w18_res' not in st.session_state` is false
HayResultado(ss) == "w18_res" \in DOMAIN ss

\* st.session_state.get(key, default)
SSGet(key, default) == IF key \in DOMAIN session_state THEN session_state[key] ELSE default

\* the assignments of lines 255-262 alone: the keys of the base layer keep what
\* an earlier calculation left
GuardarSinBase(ss, u, esp_pulg) ==
    LET nuevo ==
          [ esp_final_cm |-> EspFinalCm(esp_pulg),
            esp_pulg_base |-> esp_pulg,
            ec_res |-> Ec(u),
            k_res |-> KDiseno(u),
            w18_res |-> W18Total(u),
            conf_res |-> u.conf,
            tiene_dovelas |-> Escenarios[u.escenario].dovelas,
            tiene_soporte |-> Escenarios[u.escenario].soporte,
            usar_base |-> IF "usar_base" \in DOMAIN ss THEN ss["usar_base"] ELSE TRUE,
            tipo_base_guardado |-> IF "tipo_base_guardado" \in DOMAIN ss
                                   THEN ss["tipo_base_guardado"] ELSE Granular,
            esp_base_guardado |-> IF "esp_base_guardado" \in DOMAIN ss
                                  THEN ss["esp_base_guardado"] ELSE 1500 ]
    IN  [key \in DOMAIN ss \cup DOMAIN nuevo |->
            IF key \in DOMAIN nuevo THEN nuevo[key] ELSE ss[key]]

\* the assignments of the handler, lines 255-270
Guardar(ss, u, esp_pulg) ==
    LET nuevo ==
          [ esp_final_cm |-> EspFinalCm(esp_pulg),
            esp_pulg_base |-> esp_pulg,
            ec_res |-> Ec(u),
            k_res |-> KDiseno(u),
            w18_res |-> W18Total(u),
            conf_res |-> u.conf,
            tiene_dovelas |-> Escenarios[u.escenario].dovelas,
            tiene_soporte |-> Escenarios[u.escenario].soporte,
            usar_base |-> u.usar_base,
            tipo_base_guardado |-> IF u.usar_base THEN u.tipo_base ELSE "",
            esp_base_guardado |-> IF u.usar_base THEN u.esp_base ELSE 0 ]
    IN  [key \in DOMAIN ss \cup DOMAIN nuevo |->
            IF key \in DOMAIN nuevo THEN nuevo[key] ELSE ss[key]]

\* ------------------------------------------------------------------------
\* A script run: Streamlit runs the whole script after every user event
\* ------------------------------------------------------------------------

\* the widgets after the user changes widget f: the widgets of the base layer are
\* drawn only while usar_base is checked, and come back with their defaults
Cambiar(u, f) ==
    LET v == IF u[f] = UiDefault[f] THEN UiOther[f] ELSE UiDefault[f]
        w == [u EXCEPT ![f] = v]
    IN  IF f = "usar_base" /\ v = FALSE
        THEN [w EXCEPT !.tipo_base = UiDefault.tipo_base, !.esp_base = UiDefault.esp_base]
        ELSE w

\* the user changes a widget of tab1 or tab2
EditWidget ==
    /\ pc = "idle"
    /\ edits < MaxEdits
    /\ \E f \in UiFields :
          /\ f \in {"tipo_base", "esp_base"} => ui.usar_base
          /\ ui' = Cambiar(ui, f)
    /\ edits' = edits + 1
    /\ boton' = FALSE
    /\ pc' = "tab2"
    /\ UNCHANGED << aba, session_state, sv, geom, rango_cbr, ci, datos_abaco,
                    banderas, llamadas, caso_base, fin, fout >>

\* the user changes a widget of tab4 (drawn once w18_res is stored)
EditAbaco ==
    /\ pc = "idle"
    /\ HayResultado(session_state)
    /\ \E f \in DOMAIN AbaValues : \E v \in AbaValues[f] \ {aba[f]} :
          aba' = [aba EXCEPT ![f] = v]
    /\ boton' = FALSE
    /\ pc' = "tab2"
    /\ UNCHANGED << ui, session_state, sv, geom, rango_cbr, ci, datos_abaco,
                    banderas, llamadas, caso_base, edits, fin, fout >>

\* the user presses CALCULAR ESTRUCTURA
Click ==
    /\ pc = "idle"
    /\ boton' = TRUE
    /\ pc' = "tab2"
    /\ UNCHANGED << ui, aba, session_state, sv, geom, rango_cbr, ci, datos_abaco,
                    banderas, llamadas, caso_base, edits, fin, fout >>

\* tab2 up to the button: the handler calls calcular_espesor_aashto
Tab2 ==
    /\ pc = "tab2"
    /\ IF boton
       THEN /\ sv' = [SvIdle EXCEPT !.quien = "calc", !.idx = 1, !.args = ArgsDiseno(ui)]
            /\ pc' = "solve"
       ELSE /\ pc' = "tab3"
            /\ UNCHANGED sv
    /\ UNCHANGED << ui, aba, session_state, boton, geom, rango_cbr, ci, datos_abaco,
                    banderas, llamadas, caso_base, edits, fin, fout >>

\* the design calculation with a failed solve storing the 15 cm minimum (5.906 in)
TrasCalculoPorDefecto(r) ==
    /\ session_state' = Guardar(session_state, ui, IF Truthy(r) THEN r.v ELSE 5906)
    /\ caso_base' = [ hay |-> TRUE, args |-> sv.args, usar_base |-> ui.usar_base,
                      tipo_base |-> IF ui.usar_base THEN ui.tipo_base ELSE "",
                      esp_base |-> IF ui.usar_base THEN ui.esp_base ELSE 0,
                      esp_pulg |-> IF Truthy(r) THEN r.v ELSE 5906 ]
    /\ pc' = "tab3"
    /\ UNCHANGED << ci, datos_abaco, banderas >>

\* the design calculation after the call returned r: lines 250-273
TrasCalculo(r) ==
    /\ IF Truthy(r)
       THEN /\ session_state' = Guardar(session_state, ui, r.v)
            /\ caso_base' = [ hay |-> TRUE, args |-> sv.args, usar_base |-> ui.usar_base,
                              tipo_base |-> IF ui.usar_base THEN ui.tipo_base ELSE "",
                              esp_base |-> IF ui.usar_base THEN ui.esp_base ELSE 0,
                              esp_pulg |-> r.v ]
       ELSE UNCHANGED << session_state, caso_base >>
    /\ pc' = "tab3"
    /\ UNCHANGED << ci, datos_abaco, banderas >>

\* the body of the sweep loop with a failed solve leaving the loop
TrasFilaAborta(r) ==
    /\ IF Truthy(r)
       THEN /\ datos_abaco' = Append(datos_abaco, FilaAbaco(sv.c_val, sv.args.k, r.v))
            /\ ci' = ci + 1
       ELSE /\ ci' = Len(rango_cbr) + 1
            /\ UNCHANGED datos_abaco
    /\ pc' = "loop"
    /\ UNCHANGED << session_state, caso_base, banderas >>

\* the body of the sweep loop after the call returned r: lines 403-425
TrasFila(r) ==
    /\ IF Truthy(r)
       THEN LET row == FilaAbaco(sv.c_val, sv.args.k, r.v)
            IN  /\ datos_abaco' = Append(datos_abaco, row)
                /\ banderas' =
                     [ fuera_de_rango |-> banderas.fuera_de_rango \/ row.excede,
                       alerta_detectada |->
                           banderas.alerta_detectada \/ row.estado = "Revisar" ]
       ELSE UNCHANGED << datos_abaco, banderas >>
    /\ ci' = ci + 1
    /\ pc' = "loop"
    /\ UNCHANGED << session_state, caso_base >>

\* calcular_espesor_aashto returns r to its caller, which goes on
Retorna(r, out) ==
    /\ sv' = [sv EXCEPT !.tried = Append(@, Guesses[sv.idx]), !.last = out,
                        !.returned = TRUE, !.ret = r]
    /\ llamadas' = Append(llamadas, [ quien |-> sv.quien, c_val |-> sv.c_val,
                                      args |-> sv.args, ret |-> r ])
    /\ IF sv.quien = "calc" THEN TrasCalculo(r) ELSE TrasFila(r)

\* one pass of the for loop of calcular_espesor_aashto: fsolve from the next guess
Attempt ==
    /\ pc = "solve"
    /\ \E out \in Outcomes :
          IF Accepts(out) THEN Retorna(Some(out.sol), out)
          ELSE IF sv.idx = Len(Guesses) THEN Retorna(None, out)
          ELSE /\ sv' = [sv EXCEPT !.idx = @ + 1, !.tried = Append(@, Guesses[sv.idx]),
                                   !.last = out]
               /\ UNCHANGED << session_state, pc, ci, datos_abaco, banderas,
                               llamadas, caso_base >>
    /\ UNCHANGED << ui, aba, boton, geom, rango_cbr, edits, fin, fout >>

\* tab3: geometry and steel, from the stored design
Tab3 ==
    /\ pc = "tab3"
    /\ geom' = IF "esp_final_cm" \notin DOMAIN session_state THEN GeomNada
               ELSE [ hecho |-> TRUE, D |-> session_state["esp_final_cm"],
                      dovelas |-> SSGet("tiene_dovelas", "No"),
                      leidos |-> {"esp_final_cm", "esp_pulg_base", "ec_res", "k_res"} ]
    /\ pc' = "tab4"
    /\ UNCHANGED << ui, aba, session_state, boton, sv, rango_cbr, ci, datos_abaco,
                    banderas, llamadas, caso_base, edits, fin, fout >>

\* tab4 up to the for loop
Tab4 ==
    /\ pc = "tab4"
    /\ IF ~HayResultado(session_state)
       THEN /\ pc' = "fin"
            /\ UNCHANGED << rango_cbr, ci >>
       ELSE /\ rango_cbr' = Arange(aba.cbr_ini, aba.cbr_fin + aba.cbr_inc, aba.cbr_inc)
            /\ ci' = 1
            /\ pc' = "loop"
    /\ UNCHANGED << ui, aba, session_state, boton, sv, geom, datos_abaco,
                    banderas, llamadas, caso_base, edits, fin, fout >>

\* ki_final of the sweep for c_val
KiFinal(c_val) ==
    IF SSGet("usar_base", FALSE)
    THEN calcular_k_combinado(k_natural_cbr(c_val), SSGet("esp_base_guardado", 0),
                              SSGet("tipo_base_guardado", ""))
    ELSE k_natural_cbr(c_val)

\* the arguments of the call of the sweep for c_val: lines 399-401
ArgsAbaco(c_val) ==
    [ w18 |-> session_state["w18_res"], zr |-> ZrTab[ui.conf], s0 |-> ui.s0,
      p0 |-> ui.p0, pt |-> ui.pt, sc |-> Sc(ui), cd |-> ui.cd_val,
      j |-> Escenarios[ui.escenario].valor, ec |-> session_state["ec_res"],
      k |-> KiFinal(c_val) ]

\* the head of the for loop of tab4: the next c_val, or the end of the loop
Loop ==
    /\ pc = "loop"
    /\ IF ci > Len(rango_cbr)
       THEN /\ pc' = "fin"
            /\ UNCHANGED sv
       ELSE /\ sv' = [SvIdle EXCEPT !.quien = "abaco", !.idx = 1,
                                    !.c_val = rango_cbr[ci],
                                    !.args = ArgsAbaco(rango_cbr[ci])]
            /\ pc' = "solve"
    /\ UNCHANGED << ui, aba, session_state, boton, geom, rango_cbr, ci, datos_abaco,
                    banderas, llamadas, caso_base, edits, fin, fout >>

\* the script run ends: its locals are gone
Fin ==
    /\ pc = "fin"
    /\ pc' = "idle"
    /\ boton' = FALSE
    /\ sv' = SvIdle
    /\ geom' = GeomNada
    /\ rango_cbr' = << >>
    /\ ci' = 0
    /\ datos_abaco' = << >>
    /\ banderas' = SinBanderas
    /\ llamadas' = << >>
    /\ UNCHANGED << ui, aba, session_state, caso_base, edits, fin, fout >>

Next ==
    \/ EditWidget
    \/ EditAbaco
    \/ Click
    \/ Tab2
    \/ Attempt
    \/ Tab3
    \/ Tab4
    \/ Loop
    \/ Fin

Spec == Init /\ [][Next]_vars

\* ------------------------------------------------------------------------
\* The technical functions on their own: inputs drawn in the initial state,
\* one application
\* ------------------------------------------------------------------------

\* k natural (hundredths of a pci): CBR 1 %, 3 %, 100 %; a plate test of 150 MPa/m
\* (552.6 pci), and plate tests beyond the widget's range
KSubrasantes == {2550, 5054, 22963, 55260, 79000, 80000, 90000, 120000}

\* base thickness (hundredths of a cm); 7.62 cm is 3 inches
Espesores == {100, 500, 761, 762, 1000, 1500, 3000, 6000}

\* tipo_material: the two the widget offers and the value the sweep defaults to
Tipos == {Granular, Estabilizada, ""}

InitCombinado ==
    /\ AppInit
    /\ fin \in [ f : {"k_combinado"}, k : KSubrasantes, t1 : Espesores,
                 t2 : Espesores, tipo : Tipos ]
    /\ fout = NoFn

\* calcular_k_combinado at two thicknesses, same k and material
ApplyCombinado ==
    /\ fin.f = "k_combinado"
    /\ fout = NoFn
    /\ fout' = [ f |-> "k_combinado",
                 r1 |-> calcular_k_combinado(fin.k, fin.t1, fin.tipo),
                 r2 |-> calcular_k_combinado(fin.k, fin.t2, fin.tipo) ]
    /\ UNCHANGED << appVars, fin >>

SpecCombinado == InitCombinado /\ [][ApplyCombinado]_vars

InitNatural ==
    /\ AppInit
    /\ fin \in [f : {"k_natural"}, cbr : 10..1000]
    /\ fout = NoFn

\* the CBR correlation at one CBR of the widget's range, 1.0 .. 100.0 %
ApplyNatural ==
    /\ fin.f = "k_natural"
    /\ fout = NoFn
    /\ fout' = [f |-> "k_natural", k |-> k_natural_cbr(fin.cbr)]
    /\ UNCHANGED << appVars, fin >>

SpecNatural == InitNatural /\ [][ApplyNatural]_vars

InitW18 ==
    /\ AppInit
    /\ fin \in [ f : {"w18"}, tpd : {1, 5, 100}, periodo : {1, 25, 50, 2000},
                 crecimiento : {0, 1, 50, 500}, peso_eje : {10, 82, 110, 200} ]
    /\ fout = NoFn

\* calcular_w18 on inputs the widgets accept (they set no max_value)
ApplyW18 ==
    /\ fin.f = "w18"
    /\ fout = NoFn
    /\ fout' = [ f |-> "w18",
                 r |-> calcular_w18(fin.tpd, fin.periodo, fin.crecimiento, fin.peso_eje) ]
    /\ UNCHANGED << appVars, fin >>

SpecW18 == InitW18 /\ [][ApplyW18]_vars

InitFila ==
    /\ AppInit
    /\ fin \in [f : {"fila"}, esp_pulg : 1..12000]
    /\ fout = NoFn

\* the sweep's row and the design calculation's esp_final_cm for one solved thickness
ApplyFila ==
    /\ fin.f = "fila"
    /\ fout = NoFn
    /\ fout' = [ f |-> "fila", row |-> FilaAbaco(30, 5054, fin.esp_pulg),
                 esp_final_cm |-> EspFinalCm(fin.esp_pulg) ]
    /\ UNCHANGED << appVars, fin >>

SpecFila == InitFila /\ [][ApplyFila]_vars

\* the widget settings whose arguments the residual is evaluated with
EcuacionUis == {UiDefault} \cup {Cambiar(UiDefault, f) : f \in UiFields}

InitEcuacion ==
    /\ AppInit
    /\ fin \in [f : {"ecuacion"}, u : EcuacionUis, D : -20..3000]
    /\ fout = NoFn

\* one evaluation of ecuacion by fsolve at the trial D
ApplyEcuacion ==
    /\ fin.f = "ecuacion"
    /\ fout = NoFn
    /\ fout' = [f |-> "ecuacion", r |-> ecuacion(ArgsDiseno(fin.u), fin.D)]
    /\ UNCHANGED << appVars, fin >>

SpecEcuacion == InitEcuacion /\ [][ApplyEcuacion]_vars

\* ------------------------------------------------------------------------
\* Properties
\* ------------------------------------------------------------------------

\* C3: calcular_k_combinado never returns more than 800 pci, on any branch.
C3_Tope == fout.f = "k_combinado" => fout.r1 <= 80000 /\ fout.r2 <= 80000

\* C4: for a fixed k and material, calcular_k_combinado does not decrease when the
\* base gets thicker.
C4_Monotona ==
    (fout.f = "k_combinado" /\ fin.t1 <= fin.t2) => fout.r1 <= fout.r2

\* C4 restricted to k <= 800 pci, where the missing clamp of C3 plays no part
C4_MonotonaBajoTope ==
    (fout.f = "k_combinado" /\ fin.t1 <= fin.t2 /\ fin.k <= 80000) => fout.r1 <= fout.r2

\* |a - b|
Abs(a) == IF a >= 0 THEN a ELSE 0 - a

\* C5 as amended: the logarithmic branch for every CBR <= 10 %, the power branch
\* for every CBR > 10 %, and the branches do not meet at 10 %: k is 78.0 pci
\* there and about 55.1 pci just above, a drop of about 22.9 pci.
C5_Ramas ==
    fout.f = "k_natural" =>
        LET lg == Log10Fix(fin.cbr, 10)
        IN  /\ fin.cbr <= 100 => fout.k = 2550 + (525 * lg) \div 1000
            /\ fin.cbr > 100 =>
                 fout.k = 4600 + (908 * Exp2Fix((434 * Log2Fix(lg, 10000)) \div 100, 1000)) \div 1000
            /\ fin.cbr = 100 => Abs(fout.k - 7800) <= 10
            /\ fin.cbr = 101 => Abs(fout.k - 5525) <= 10
            /\ fin.cbr = 100 => Abs((fout.k - RamaPotencia(100)) - 2292) <= 10

\* C5 witness: the correlation applied at exactly 10 %
C5_Witness == fout.f = "k_natural" /\ fin.cbr = 100

\* C5 as stated: at 10 % the value of the logarithmic branch equals the limit of
\* the power branch, within tolerance.
C5_Continua ==
    (fout.f = "k_natural" /\ fin.cbr = 100) => Abs(fout.k - RamaPotencia(100)) <= 10

\* C6: calcular_w18 raises nothing and both results are >= 0, for every growth
\* >= 0, period >= 1, vehicles >= 1 and axle load > 0; fe and the ESALs follow the
\* formulas.
C6_Total ==
    fout.f = "w18" =>
        /\ ~fout.r.error
        /\ fout.r.fe = Pos(4 * Log2Fix(fin.peso_eje, 82))
        /\ ~fout.r.w18.error

\* C6 without the totality: whenever the call returns, fe and the ESALs are >= 0
\* and fe is the fourth power of peso_eje / 8.2
C6_SiRetorna ==
    (fout.f = "w18" /\ ~fout.r.error) =>
        /\ fout.r.fe = Pos(4 * Log2Fix(fin.peso_eje, 82))
        /\ ~fout.r.w18.error

\* the classification C7 states, for a thickness of esp_cm (1e-5 cm)
EstadoC7(esp_cm) ==
    IF esp_cm > 25 * 10^5 THEN "Critico"
    ELSE LET adoptado == Max(Ceil(esp_cm, 10^5), 15)
         IN  IF 23 <= adoptado /\ adoptado <= 25 THEN "Revisar" ELSE "OK"

\* C7: a row is Critico when t > 25 cm; otherwise Revisar when t rounded up to a
\* whole cm (at least 15) lies in [23, 25]; otherwise OK.
C7_Clasificacion ==
    fout.f = "fila" => fout.row.estado = EstadoC7(EspCm(fin.esp_pulg))

\* the part of C7 the code keeps: Critico exactly when t > 25 cm
C7_Critico ==
    fout.f = "fila" => (fout.row.estado = "Critico" <=> EspCm(fin.esp_pulg) > 25 * 10^5)

\* the sign of num at a trial D > 0: that of D ** 0.75 - 1.132
SignoNum(D) == D75(D) - 1132

\* the sign of den at a trial D > 0: that of D ** 0.75 - 18.42 / (ec / k) ** 0.25
SignoDen(a, D) == D75(D) - Umbral(a.ec, a.k)

\* the trial D is one C11 gives the sentinel for: D <= 0, den = 0 or num / den <= 0
FueraDeDominio(a, D) ==
    IF D <= 0 THEN TRUE
    ELSE \/ SignoDen(a, D) = 0
         \/ SignoNum(D) = 0
         \/ (SignoNum(D) < 0) # (SignoDen(a, D) < 0)

\* C11: the residual is the sentinel 1e10 when D <= 0, when den = 0 or when
\* num / den <= 0, and a finite sum otherwise; no division by zero is evaluated.
C11_SinFallo ==
    fout.f = "ecuacion" =>
        /\ ~fout.r.div0
        /\ fout.r.clase =
             IF FueraDeDominio(ArgsDiseno(fin.u), fin.D) THEN "centinela" ELSE "finito"

\* the part of C11 the code keeps: away from den = 0 the residual is the sentinel
\* or finite as C11 says, and nothing is divided by zero
C11_ConDenNoNulo ==
    (fout.f = "ecuacion" /\ (fin.D > 0 => SignoDen(ArgsDiseno(fin.u), fin.D) # 0)) =>
        /\ ~fout.r.div0
        /\ fout.r.clase =
             IF FueraDeDominio(ArgsDiseno(fin.u), fin.D) THEN "centinela" ELSE "finito"

\* the keys the design calculation stores
ClavesDiseno ==
    { "esp_final_cm", "esp_pulg_base", "ec_res", "k_res", "w18_res", "conf_res",
      "tiene_dovelas", "tiene_soporte", "usar_base", "tipo_base_guardado",
      "esp_base_guardado" }

\* the stored design is absent, or whole and that of the calculation caso_base
C12_Entero ==
    IF ~caso_base.hay THEN DOMAIN session_state \cap ClavesDiseno = {}
    ELSE /\ ClavesDiseno \subseteq DOMAIN session_state
         /\ session_state["esp_pulg_base"] = caso_base.esp_pulg
         /\ session_state["ec_res"] = caso_base.args.ec
         /\ session_state["k_res"] = caso_base.args.k
         /\ session_state["w18_res"] = caso_base.args.w18
         /\ ZrTab[session_state["conf_res"]] = caso_base.args.zr
         /\ \E e \in 1..Len(Escenarios) :
               /\ Escenarios[e].valor = caso_base.args.j
               /\ Escenarios[e].dovelas = session_state["tiene_dovelas"]
               /\ Escenarios[e].soporte = session_state["tiene_soporte"]
         /\ session_state["usar_base"] = caso_base.usar_base
         /\ session_state["tipo_base_guardado"] = caso_base.tipo_base
         /\ session_state["esp_base_guardado"] = caso_base.esp_base
         /\ session_state["esp_final_cm"] >= 15
         /\ session_state["esp_final_cm"] * 10^5 >= 254 * session_state["esp_pulg_base"]
         /\ \/ session_state["esp_final_cm"] = 15
            \/ (session_state["esp_final_cm"] - 1) * 10^5
                  < 254 * session_state["esp_pulg_base"]

\* a step stores only when a design calculation succeeds: a failed one, and every
\* other step, leaves the stored values as they were
C12_Paso ==
    session_state' # session_state =>
        /\ pc = "solve"
        /\ sv.quien = "calc"
        /\ sv'.returned
        /\ ~sv'.ret.none
        /\ sv'.ret.v > 0

\* C12: the stored design is absent or written whole by one successful design
\* calculation (thickness adopted and exact, Ec, k, W18, reliability, dowels and
\* support, base layer); the adopted thickness is a whole number of cm, >= 15 and
\* >= 2.54 times the exact one; a failed calculation leaves it all unchanged.
C12_Estado == []C12_Entero /\ [][C12_Paso]_vars

\* C12 witness: a design calculation fails while the design of a calculation
\* with other than the default inputs is stored, its base layer included
C12_Witness ==
    /\ pc = "tab3"
    /\ Len(llamadas) = 1
    /\ llamadas[1].quien = "calc"
    /\ llamadas[1].ret.none
    /\ caso_base.hay
    /\ caso_base.args # ArgsDiseno(UiDefault)
    /\ session_state["k_res"] = caso_base.args.k
    /\ session_state["esp_final_cm"] = 23

\* C13: tab3 and tab4 compute only once a successful design calculation has
\* stored: with none stored (failed ones included) there is no sizing result, no
\* range, no solve of the sweep and no row; when they run, every stored value
\* they read is present.
C13_Compuertas ==
    /\ geom.hecho =>
          /\ caso_base.hay
          /\ geom.leidos \subseteq DOMAIN session_state
    /\ ( \/ pc = "loop"
         \/ rango_cbr # << >>
         \/ datos_abaco # << >>
         \/ \E i \in 1..Len(llamadas) : llamadas[i].quien = "abaco" ) =>
          /\ caso_base.hay
          /\ {"w18_res", "ec_res"} \subseteq DOMAIN session_state
    /\ ~caso_base.hay => DOMAIN session_state \cap ClavesDiseno = {}

\* C13 witness: a run in which tab3 sized the slab and tab4 produced rows from
\* the stored design
C13_Witness ==
    /\ pc = "fin"
    /\ caso_base.hay
    /\ geom.hecho
    /\ geom.D = session_state["esp_final_cm"]
    /\ Len(datos_abaco) >= 2

\* a run whose design calculation failed with nothing stored ends without a
\* sizing result and without a row
C13_TrasFallo ==
    /\ pc = "fin"
    /\ ~caso_base.hay
    /\ Len(llamadas) = 1
    /\ llamadas[1].ret.none
    /\ ~geom.hecho
    /\ datos_abaco = << >>

\* a guess the loop accepts: reported convergent, with a positive root
Exito(out) == out.ier = 1 /\ out.sol > 0

\* C1: calcular_espesor_aashto tries 6, 8, 10, 12, 14, 18 in that order, at most
\* six times; the first attempt that converges to a positive root is returned at
\* once and ends the call; an attempt that does not is skipped and never returned.
C1_Orden ==
    [][ /\ (pc = "solve" /\ sv' # sv) =>
             LET n == Len(sv.tried)
             IN  /\ n + 1 <= 6
                 /\ sv.tried = SubSeq(<<6, 8, 10, 12, 14, 18>>, 1, n)
                 /\ sv'.tried = SubSeq(<<6, 8, 10, 12, 14, 18>>, 1, n + 1)
                 /\ IF Exito(sv'.last)
                    THEN sv'.returned /\ sv'.ret = Some(sv'.last.sol)
                    ELSE /\ sv'.ret = None
                         /\ sv'.returned <=> (n + 1 = 6)
        /\ sv.returned => (sv' = sv \/ (sv'.tried = << >> /\ ~sv'.returned))
      ]_vars

\* C1 witness: the third guess is accepted after two were skipped
C1_Witness == sv.returned /\ ~sv.ret.none /\ sv.tried = <<6, 8, 10>>

\* C2: when no guess converges to a positive root the call returns None, and the
\* design calculation stops there: nothing is stored, no thickness is adopted.
C2_ParadaDura ==
    [][ (pc = "solve" /\ sv.quien = "calc" /\ sv'.returned /\ ~Exito(sv'.last)) =>
            /\ Len(sv'.tried) = 6
            /\ sv'.ret = None
            /\ session_state' = session_state
            /\ caso_base' = caso_base
            /\ pc' = "tab3"
      ]_vars

\* C2 witness: a design calculation failed after an earlier one had stored
C2_Witness ==
    /\ pc = "tab3"
    /\ Len(llamadas) = 1
    /\ llamadas[1].quien = "calc"
    /\ llamadas[1].ret.none
    /\ "esp_final_cm" \in DOMAIN session_state

\* the calls of the sweep in this run, in order
LlamadasAbaco == SelectSeq(llamadas, LAMBDA c : c.quien = "abaco")

\* the sweep of this run went through its whole range
AbacoCompleto == pc = "fin" /\ "w18_res" \in DOMAIN session_state

\* C8: the sweep evaluates cbr_ini + i * cbr_inc in ascending order and its rows
\* keep that order; with cbr_ini <= cbr_fin every such point <= cbr_fin is
\* evaluated; no point >= cbr_fin + cbr_inc is.
C8_Rango ==
    LET pts == LlamadasAbaco
    IN  /\ \A i \in 1..Len(pts) :
             /\ pts[i].c_val = aba.cbr_ini + (i - 1) * aba.cbr_inc
             /\ pts[i].c_val < aba.cbr_fin + aba.cbr_inc
        /\ \A i \in 1..Len(datos_abaco) :
             /\ \E j \in 1..Len(pts) : pts[j].c_val = datos_abaco[i].cbr
             /\ \A j \in 1..Len(datos_abaco) :
                   i < j => datos_abaco[i].cbr < datos_abaco[j].cbr
        /\ (AbacoCompleto /\ aba.cbr_ini <= aba.cbr_fin) =>
             \A i \in 0..((aba.cbr_fin - aba.cbr_ini) \div aba.cbr_inc) : i + 1 <= Len(pts)

\* the part of C8 the code keeps: the points are cbr_ini + i * cbr_inc in
\* ascending order, the rows keep that order, every point <= cbr_fin is
\* evaluated, and no point above cbr_fin + cbr_inc is
C8_Orden ==
    LET pts == LlamadasAbaco
    IN  /\ \A i \in 1..Len(pts) :
             /\ pts[i].c_val = aba.cbr_ini + (i - 1) * aba.cbr_inc
             /\ pts[i].c_val <= aba.cbr_fin + aba.cbr_inc
        /\ \A i \in 1..Len(datos_abaco) : \A j \in 1..Len(datos_abaco) :
             i < j => datos_abaco[i].cbr < datos_abaco[j].cbr
        /\ (AbacoCompleto /\ aba.cbr_ini <= aba.cbr_fin) =>
             \A i \in 0..((aba.cbr_fin - aba.cbr_ini) \div aba.cbr_inc) : i + 1 <= Len(pts)

\* C9: a failed solve at one CBR leaves that CBR without a row and the sweep goes
\* on: every point of rango_cbr is evaluated, and the rows are exactly the
\* points whose solve succeeded, one row each.
C9_SigueTrasFallo ==
    LET pts == LlamadasAbaco
        ok  == SelectSeq(pts, LAMBDA c : ~c.ret.none)
    IN  /\ Len(datos_abaco) = Len(ok)
        /\ \A i \in 1..Len(ok) : datos_abaco[i].cbr = ok[i].c_val
        /\ AbacoCompleto =>
             /\ Len(pts) = Len(rango_cbr)
             /\ \A i \in 1..Len(pts) : pts[i].c_val = rango_cbr[i]

\* C9 witness: a whole sweep with a failure before and after a row
C9_Witness ==
    /\ AbacoCompleto
    /\ Len(LlamadasAbaco) >= 3
    /\ LlamadasAbaco[1].ret.none
    /\ ~LlamadasAbaco[2].ret.none
    /\ LlamadasAbaco[3].ret.none
    /\ Len(datos_abaco) >= 1

\* the arguments of a call but the k of the row
SinK(a) == [a EXCEPT !.k = 0]

\* C10: every row of a sweep is solved with the inputs of the last design
\* calculation that stored (W18, Zr, S0, P0, Pt, S'c, Cd, J, Ec); only k differs.
C10_CasoBase ==
    \A i \in 1..Len(LlamadasAbaco) :
        /\ caso_base.hay
        /\ SinK(LlamadasAbaco[i].args) = SinK(caso_base.args)

\* the part of C10 the code keeps: the rows of one sweep share their inputs, and
\* W18, Ec and the base layer are those of the stored calculation
C10_MismaCorrida ==
    \A i \in 1..Len(LlamadasAbaco) :
        /\ SinK(LlamadasAbaco[i].args) = SinK(LlamadasAbaco[1].args)
        /\ LlamadasAbaco[i].args.w18 = caso_base.args.w18
        /\ LlamadasAbaco[i].args.ec = caso_base.args.ec

====
